---- MODULE Spec2Model ----
(***************************************************************************)
(* Model of tasks/task_09_CSG_instantaneous_dose_tallies/                  *)
(* compare_dose_simulation_with_back_of_envelope.py                        *)
(*                                                                         *)
(* Numbers.  Python floats are modelled as exact values of the form        *)
(*      (n / d) * pi^p * 10^e                                              *)
(* with n, d integers in lowest terms, so that products, quotients and     *)
(* powers are computed, not assumed.  Lengths handed to the geometry are   *)
(* integers in tenths of a centimetre (15.1 cm = 151), energies are        *)
(* integers in units of 0.25 MeV (14e6 eV = 56, 16.75e6 eV = 67).          *)
(* Python sequences are 0-based, the sequences here are 1-based.           *)
(***************************************************************************)
EXTENDS Integers, Sequences, FiniteSets

VARIABLES
    call,                           \* the top-level call being executed
    pc,                             \* position of the interpreter
    err,                            \* the exception in flight, "none" if none
    caller,                         \* who called simulate_dose: "top" or "plot"
    dataset,                        \* openmc.data dose coefficient tables loaded so far
    idx,                            \* position of the for loop in distances_to_simulate
    dose_for_each_shot_simulation,  \* local list of plot_dose_vs_distance
    dose_for_each_shot_calc,        \* local list of plot_dose_vs_distance
    sim,                            \* locals of simulate_dose (and of its manual_dose_calc call)
    engineLog,                      \* every model.run() made: distance, outcome, tally mean
    charts,                         \* files written by plt.savefig
    ret                             \* value returned to the top level by simulate_dose

vars == <<call, pc, err, caller, dataset, idx, dose_for_each_shot_simulation,
          dose_for_each_shot_calc, sim, engineLog, charts, ret>>

----------------------------------------------------------------------------
(* Bounds of the model *)

MaxEnergy == 2

MaxCoeff == 2

MaxTally == 1

MaxPps == 2

(* Program constants *)

PhantomRadius == 150

PhantomOffset == 151

NeutronEnergy == 56

PhotonEnergy == 67

NeutronPpsExp == 18

PhotonPpsExp == 14

----------------------------------------------------------------------------
(* Exact arithmetic standing for Python's float operations *)

Abs(x) == IF x < 0 THEN -x ELSE x

RECURSIVE GCD(_, _)
GCD(a, b) == IF b = 0 THEN a ELSE GCD(b, a % b)

Zero == [n |-> 0, d |-> 1, pi |-> 0, e |-> 0]

\* the value (n / d) * pi^p * 10^e in lowest terms, d > 0; zero has one form
V(n, d, p, e) ==
    IF n = 0 THEN Zero
    ELSE LET g == GCD(Abs(n), Abs(d))
             s == IF d < 0 THEN -1 ELSE 1
         IN  [n |-> s * (n \div g), d |-> s * (d \div g), pi |-> p, e |-> e]

VInt(k) == V(k, 1, 0, 0)

\* a * b, cancelling across before multiplying
VMul(a, b) ==
    IF a.n = 0 \/ b.n = 0 THEN Zero
    ELSE LET g1 == GCD(Abs(a.n), b.d)
             g2 == GCD(Abs(b.n), a.d)
         IN  V((a.n \div g1) * (b.n \div g2), (a.d \div g2) * (b.d \div g1),
               a.pi + b.pi, a.e + b.e)

\* a / b for b # 0
VDiv(a, b) == VMul(a, V(b.d, b.n, -b.pi, -b.e))

\* a <= b for two values with the same power of pi and of ten
VLeq(a, b) ==
    LET g == GCD(Abs(a.n), Abs(b.n))
        h == GCD(a.d, b.d)
    IN  IF g = 0 THEN TRUE
        ELSE (a.n \div g) * (b.d \div h) <= (b.n \div g) * (a.d \div h)

math_pi == V(1, 1, 1, 0)

RECURSIVE math_pow(_, _)
math_pow(x, k) == IF k = 0 THEN VInt(1) ELSE VMul(x, math_pow(x, k - 1))

\* the literal 1e-12
Pico == V(1, 1, 0, -12)

\* a length of the geometry (tenths of a centimetre) as a number of centimetres
Cm(len) == V(len, 10, 0, 0)

----------------------------------------------------------------------------
(* Inputs *)

Particles == {"neutron", "photon"}

TableEnergies == {2 * k : k \in 1..MaxEnergy}

Energies == 0..(2 * MaxEnergy + 2)

RECURSIVE SortedSeq(_)
SortedSeq(S) ==
    IF S = {} THEN <<>>
    ELSE LET m == CHOOSE x \in S : \A y \in S : x <= y
         IN  <<m>> \o SortedSeq(S \ {m})

\* what openmc.data.dose_coefficients can return: energies strictly increasing
Tables ==
    UNION {{[energy |-> SortedSeq(S), dose_coeffs |-> c] :
                c \in [1..Cardinality(S) -> 1..MaxCoeff]} :
           S \in (SUBSET TableEnergies) \ {{}}}

NoTable == [energy |-> <<>>, dose_coeffs |-> <<>>]

TallyMeans == 0..MaxTally

\* distances a caller of simulate_dose may pass, in tenths of a centimetre
Distances == {-100, 0, 100, 150, 151, 200, 301, 302, 10000}

distances_to_simulate == <<10000, 20000, 30000>>

\* lines 192 and 193
PlotCalls ==
    {[fn |-> "plot_dose_vs_distance", particle |-> "neutron", energy |-> NeutronEnergy,
      particles_per_shot |-> V(1, 1, 0, NeutronPpsExp), distance_from_source |-> 0],
     [fn |-> "plot_dose_vs_distance", particle |-> "photon", energy |-> PhotonEnergy,
      particles_per_shot |-> V(1, 1, 0, PhotonPpsExp), distance_from_source |-> 0]}

SimulateCalls ==
    {[fn |-> "simulate_dose", particle |-> p, energy |-> q,
      particles_per_shot |-> VInt(m), distance_from_source |-> dist] :
        p \in Particles, q \in Energies, m \in 1..MaxPps, dist \in Distances}

----------------------------------------------------------------------------
(* manual_dose_calc *)

sphere_surface_area_linear(distance_from_source) ==
    VMul(VMul(VInt(4), math_pi), math_pow(Cm(distance_from_source), 1))

sphere_surface_area(distance_from_source) ==
    VMul(VMul(VInt(4), math_pi), math_pow(Cm(distance_from_source), 2))

\* np.abs(np.array(energy) - particle_energy)
AbsDiffs(energy, particle_energy) ==
    [i \in 1..Len(energy) |-> Abs(energy[i] - particle_energy)]

RECURSIVE ArgMinScan(_, _, _)
ArgMinScan(s, i, best) ==
    IF i > Len(s) THEN best
    ELSE ArgMinScan(s, i + 1, IF s[i] < s[best] THEN i ELSE best)

RECURSIVE ArgMinScanLast(_, _, _)
ArgMinScanLast(s, i, best) ==
    IF i > Len(s) THEN best
    ELSE ArgMinScanLast(s, i + 1, IF s[i] <= s[best] THEN i ELSE best)

np_argmin_last(s) == ArgMinScanLast(s, 2, 1)

\* np.argmin: the first position holding the minimum
np_argmin(s) == ArgMinScan(s, 2, 1)

closest_index(table, particle_energy) ==
    np_argmin(AbsDiffs(table.energy, particle_energy))

\* defined for distance_from_source # 0; at 0 the division raises
manual_dose_calc(particles_per_shot, distance_from_source, table, particle_energy) ==
    LET particles_per_unit_area ==
            VDiv(particles_per_shot, sphere_surface_area(distance_from_source))
        dose_coeff == table.dose_coeffs[closest_index(table, particle_energy)]
    IN  VMul(VMul(particles_per_unit_area, VInt(dose_coeff)), Pico)

----------------------------------------------------------------------------
(* simulate_dose: what it builds *)

PhantomX0OnBoundary(distance_from_source) == distance_from_source

PhantomX0NearFace(distance_from_source) ==
    distance_from_source - PhantomOffset - PhantomRadius

PhantomX0(distance_from_source) == distance_from_source - PhantomOffset

BuildGeometry(distance_from_source) ==
    [phantom_surface |-> [r |-> PhantomRadius, x0 |-> PhantomX0(distance_from_source)],
     outer_surface   |-> [r |-> distance_from_source, boundary_type |-> "vacuum"]]

NoGeometry ==
    [phantom_surface |-> [r |-> 0, x0 |-> 0],
     outer_surface   |-> [r |-> 0, boundary_type |-> "none"]]

Filter(kind, arg) == [kind |-> kind, arg |-> arg]

DoseTallyFiltersNoParticle(particle) ==
    <<Filter("CellFilter", "phantom_cell"), Filter("EnergyFunctionFilter", particle)>>

DoseTallyFilters(particle) ==
    <<Filter("CellFilter", "phantom_cell"), Filter("EnergyFunctionFilter", particle),
      Filter("ParticleFilter", particle)>>

CurrentTallyFilters(particle) ==
    <<Filter("CellFilter", "phantom_cell"), Filter("SurfaceFilter", "phantom_surface")>>

BuildTallies(particle) ==
    <<[name |-> "dose_on_cell", filters |-> DoseTallyFilters(particle), scores |-> <<"flux">>],
      [name |-> "surface_current", filters |-> CurrentTallyFilters(particle),
       scores |-> <<"current">>]>>

phantom_volume_square(r) ==
    VMul(VMul(V(4, 3, 0, 0), math_pi), math_pow(Cm(r), 2))

phantom_volume(r) ==
    VMul(VMul(V(4, 3, 0, 0), math_pi), math_pow(Cm(r), 3))

\* lines 134-140, in that order
Convert(tally_result, particles_per_shot, volume) ==
    LET perShot == VMul(VInt(tally_result), particles_per_shot)
        perVolume == VDiv(perShot, volume)
    IN  VMul(perVolume, Pico)

NoSim ==
    [distance_from_source |-> 0, particle |-> "none", particles_per_shot |-> Zero,
     energy |-> 0, geometry |-> NoGeometry, tallies |-> <<>>, phantom_volume |-> Zero,
     tally_result |-> 0, total_dose |-> Zero, closest_index |-> 0, dose_coeff |-> 0,
     calculated_dose |-> Zero]

EnterSimulate(distance_from_source, particle, particles_per_shot, energy) ==
    [NoSim EXCEPT !.distance_from_source = distance_from_source,
                  !.particle = particle,
                  !.particles_per_shot = particles_per_shot,
                  !.energy = energy]

AppendDoseFront(list, dose) == <<dose>> \o list

AppendDose(list, dose) == Append(list, dose)

----------------------------------------------------------------------------
(* The state after the module-level definitions (lines 8-190) have run.     *)
(* The two runs of lines 192 and 193 share nothing but the loaded tables,  *)
(* so each is explored on its own, as is a call of simulate_dose made      *)
(* from outside the sweep with arbitrary arguments.                        *)

Init ==
    /\ call \in PlotCalls \cup SimulateCalls
    /\ pc = "top"
    /\ err = "none"
    /\ caller = "top"
    /\ dataset = [p \in Particles |-> NoTable]
    /\ idx = 0
    /\ dose_for_each_shot_simulation = <<>>
    /\ dose_for_each_shot_calc = <<>>
    /\ sim = NoSim
    /\ engineLog = <<>>
    /\ charts = <<>>
    /\ ret = <<>>

\* lines 192, 193 and 157-159: plot_dose_vs_distance is entered
CallPlot ==
    /\ pc = "top"
    /\ call.fn = "plot_dose_vs_distance"
    /\ pc' = "loop"
    /\ caller' = "plot"
    /\ idx' = 1
    /\ dose_for_each_shot_simulation' = <<>>
    /\ dose_for_each_shot_calc' = <<>>
    /\ UNCHANGED <<call, err, dataset, sim, engineLog, charts, ret>>

\* simulate_dose is entered from outside the sweep
CallSimulate ==
    /\ pc = "top"
    /\ call.fn = "simulate_dose"
    /\ pc' = "build"
    /\ sim' = EnterSimulate(call.distance_from_source, call.particle,
                            call.particles_per_shot, call.energy)
    /\ UNCHANGED <<call, err, caller, dataset, idx, dose_for_each_shot_simulation,
                   dose_for_each_shot_calc, engineLog, charts, ret>>

\* lines 160-161: the loop takes the next distance and enters simulate_dose
LoopNext ==
    /\ pc = "loop"
    /\ idx <= Len(distances_to_simulate)
    /\ pc' = "build"
    /\ sim' = EnterSimulate(distances_to_simulate[idx], call.particle,
                            call.particles_per_shot, call.energy)
    /\ UNCHANGED <<call, err, caller, dataset, idx, dose_for_each_shot_simulation,
                   dose_for_each_shot_calc, engineLog, charts, ret>>

\* lines 63-122: geometry, source, tallies and model are built; nothing is validated.
\* The dose coefficient table of the particle is read (line 98); openmc loads it
\* on first use and keeps it.
SimBuild ==
    /\ pc = "build"
    /\ \E t \in (IF dataset[sim.particle] = NoTable THEN Tables
                 ELSE {dataset[sim.particle]}) :
           dataset' = [dataset EXCEPT ![sim.particle] = t]
    /\ sim' = [sim EXCEPT !.geometry = BuildGeometry(sim.distance_from_source),
                          !.tallies = BuildTallies(sim.particle),
                          !.phantom_volume = phantom_volume(PhantomRadius)]
    /\ pc' = "run"
    /\ UNCHANGED <<call, err, caller, idx, dose_for_each_shot_simulation,
                   dose_for_each_shot_calc, engineLog, charts, ret>>

\* lines 124-130: the engine runs and the mean of dose_on_cell is read
EngineRunOk ==
    /\ pc = "run"
    /\ \E mean \in TallyMeans :
         /\ sim' = [sim EXCEPT !.tally_result = mean]
         /\ engineLog' = Append(engineLog,
                [d |-> sim.distance_from_source, ok |-> TRUE, mean |-> mean])
    /\ pc' = "convert"
    /\ UNCHANGED <<call, err, caller, dataset, idx, dose_for_each_shot_simulation,
                   dose_for_each_shot_calc, charts, ret>>

EngineRunFailSwallowed ==
    /\ pc = "run"
    /\ caller = "plot"
    /\ engineLog' = Append(engineLog,
            [d |-> sim.distance_from_source, ok |-> FALSE, mean |-> 0])
    /\ pc' = "loop"
    /\ idx' = idx + 1
    /\ sim' = NoSim
    /\ UNCHANGED <<call, err, caller, dataset, dose_for_each_shot_simulation,
                   dose_for_each_shot_calc, charts, ret>>

\* line 124: model.run() raises; nothing catches it in simulate_dose,
\* in plot_dose_vs_distance or at the top level
EngineRunFail ==
    /\ pc = "run"
    /\ engineLog' = Append(engineLog,
            [d |-> sim.distance_from_source, ok |-> FALSE, mean |-> 0])
    /\ pc' = "error"
    /\ err' = "EngineFailure"
    /\ UNCHANGED <<call, caller, dataset, idx, dose_for_each_shot_simulation,
                   dose_for_each_shot_calc, sim, charts, ret>>

\* lines 132-142
ConvertStep ==
    /\ pc = "convert"
    /\ sim' = [sim EXCEPT !.total_dose =
                    Convert(sim.tally_result, sim.particles_per_shot, sim.phantom_volume)]
    /\ pc' = "calc"
    /\ UNCHANGED <<call, err, caller, dataset, idx, dose_for_each_shot_simulation,
                   dose_for_each_shot_calc, engineLog, charts, ret>>

\* lines 144-151 with 34-49
ManualCalcOk ==
    /\ pc = "calc"
    /\ sphere_surface_area(sim.distance_from_source) # Zero
    /\ LET table == dataset[sim.particle]
           k == closest_index(table, sim.energy)
       IN  sim' = [sim EXCEPT !.closest_index = k,
                              !.dose_coeff = table.dose_coeffs[k],
                              !.calculated_dose =
                                  manual_dose_calc(sim.particles_per_shot,
                                                   sim.distance_from_source,
                                                   table, sim.energy)]
    /\ pc' = "return"
    /\ UNCHANGED <<call, err, caller, dataset, idx, dose_for_each_shot_simulation,
                   dose_for_each_shot_calc, engineLog, charts, ret>>

\* line 36: the surface area is 0.0 and the division raises ZeroDivisionError
ManualCalcZeroDiv ==
    /\ pc = "calc"
    /\ sphere_surface_area(sim.distance_from_source) = Zero
    /\ pc' = "error"
    /\ err' = "ZeroDivisionError"
    /\ UNCHANGED <<call, caller, dataset, idx, dose_for_each_shot_simulation,
                   dose_for_each_shot_calc, sim, engineLog, charts, ret>>

\* lines 153 and 161-163: back in the loop, both doses are appended
ReturnToLoop ==
    /\ pc = "return"
    /\ caller = "plot"
    /\ dose_for_each_shot_simulation' =
            AppendDose(dose_for_each_shot_simulation, sim.total_dose)
    /\ dose_for_each_shot_calc' = AppendDose(dose_for_each_shot_calc, sim.calculated_dose)
    /\ idx' = idx + 1
    /\ sim' = NoSim
    /\ pc' = "loop"
    /\ UNCHANGED <<call, err, caller, dataset, engineLog, charts, ret>>

\* line 153: back at the top level
ReturnToTop ==
    /\ pc = "return"
    /\ caller = "top"
    /\ ret' = <<sim.total_dose, sim.calculated_dose>>
    /\ sim' = NoSim
    /\ pc' = "exit"
    /\ UNCHANGED <<call, err, caller, dataset, idx, dose_for_each_shot_simulation,
                   dose_for_each_shot_calc, engineLog, charts>>

\* lines 165-189: the loop is exhausted, the two series are plotted and saved
PlotAndSave ==
    /\ pc = "loop"
    /\ idx > Len(distances_to_simulate)
    /\ charts' = Append(charts,
            [file |-> <<call.energy, call.particle>>,
             x |-> distances_to_simulate,
             simulation |-> dose_for_each_shot_simulation,
             calculation |-> dose_for_each_shot_calc])
    /\ pc' = "exit"
    /\ caller' = "top"
    /\ UNCHANGED <<call, err, dataset, idx, dose_for_each_shot_simulation,
                   dose_for_each_shot_calc, sim, engineLog, ret>>

Next ==
    \/ CallPlot
    \/ CallSimulate
    \/ LoopNext
    \/ SimBuild
    \/ EngineRunOk
    \/ EngineRunFail
    \/ ConvertStep
    \/ ManualCalcOk
    \/ ManualCalcZeroDiv
    \/ ReturnToLoop
    \/ ReturnToTop
    \/ PlotAndSave

Spec == Init /\ [][Next]_vars

----------------------------------------------------------------------------
(* Properties *)

InSweep == call.fn = "plot_dose_vs_distance" /\ pc # "top"

Built == sim.tallies # <<>>

\* C1: in a sweep both series have one entry per completed iteration, the i-th
\* entry of each is the result computed for the i-th input distance, and a
\* sweep that finishes hands over one entry per input distance, in input order.
C1_SeriesFollowInputOrder ==
    InSweep =>
        /\ Len(dose_for_each_shot_simulation) = Len(dose_for_each_shot_calc)
        /\ pc # "exit" => Len(dose_for_each_shot_simulation) = idx - 1
        /\ \A i \in 1..Len(dose_for_each_shot_simulation) :
              /\ engineLog[i].d = distances_to_simulate[i]
              /\ dose_for_each_shot_simulation[i] =
                    Convert(engineLog[i].mean, call.particles_per_shot,
                            phantom_volume(PhantomRadius))
              /\ dose_for_each_shot_calc[i] =
                    manual_dose_calc(call.particles_per_shot, distances_to_simulate[i],
                                     dataset[call.particle], call.energy)
        /\ pc = "exit" =>
              /\ Len(dose_for_each_shot_simulation) = Len(distances_to_simulate)
              /\ Len(charts) = 1
              /\ charts[1].x = distances_to_simulate
              /\ charts[1].simulation = dose_for_each_shot_simulation
              /\ charts[1].calculation = dose_for_each_shot_calc

C1_Witness ==
    /\ InSweep
    /\ pc = "exit"
    /\ Len(dose_for_each_shot_simulation) = 3
    /\ dose_for_each_shot_simulation[1] # dose_for_each_shot_simulation[2]
    /\ dose_for_each_shot_simulation[2] # dose_for_each_shot_simulation[3]

\* C2: a distance <= 0 is rejected with InvalidGeometry and the engine is never
\* invoked with it.
C2_NonPositiveDistanceRejected ==
    /\ \A i \in 1..Len(engineLog) : engineLog[i].d > 0
    /\ (call.fn = "simulate_dose" /\ call.distance_from_source <= 0
            /\ pc \in {"exit", "error"})
        => err = "InvalidGeometry"

\* C3: a distance d with 0 < d < R + delta (15.1 cm) ends in InvalidGeometry
\* instead of a geometry being built and the engine being run.
C3_PhantomDoesNotFitRejected ==
    /\ \A i \in 1..Len(engineLog) : ~(0 < engineLog[i].d /\ engineLog[i].d < 151)
    /\ (call.fn = "simulate_dose" /\ 0 < call.distance_from_source
            /\ call.distance_from_source < 151 /\ pc \in {"exit", "error"})
        => err = "InvalidGeometry"

\* C4: a failed engine invocation is the last one ever made, it leaves the run
\* in the error state, no dose pair is appended for the failing distance and no
\* chart is ever saved.
C4_EngineFailureAbortsSweep ==
    \A i \in 1..Len(engineLog) :
        ~engineLog[i].ok =>
            /\ i = Len(engineLog)
            /\ pc = "error"
            /\ err = "EngineFailure"
            /\ charts = <<>>
            /\ InSweep =>
                  /\ idx = i
                  /\ engineLog[i].d = distances_to_simulate[i]
                  /\ Len(dose_for_each_shot_simulation) = i - 1
                  /\ Len(dose_for_each_shot_calc) = i - 1

C4_Witness ==
    /\ InSweep
    /\ pc = "error"
    /\ err = "EngineFailure"
    /\ idx = 2
    /\ Len(dose_for_each_shot_simulation) = 1

HasParticleFilter(tally, particle) ==
    \E j \in 1..Len(tally.filters) : tally.filters[j] = Filter("ParticleFilter", particle)

\* C5 as stated: both tallies carry a particle filter for the particle under study.
C5_BothTalliesParticleFiltered ==
    Built => \A t \in 1..Len(sim.tallies) : HasParticleFilter(sim.tallies[t], sim.particle)

\* C5 as amended: the dose tally carries a particle filter for the particle
\* under study; the current tally carries the cell and surface filters only.
C5_DoseTallyParticleFiltered ==
    Built =>
        /\ Len(sim.tallies) = 2
        /\ sim.tallies[1].name = "dose_on_cell"
        /\ HasParticleFilter(sim.tallies[1], sim.particle)
        /\ sim.tallies[2].name = "surface_current"
        /\ {sim.tallies[2].filters[j].kind : j \in 1..Len(sim.tallies[2].filters)}
              = {"CellFilter", "SurfaceFilter"}

C5_Witness == Built /\ sim.particle = "photon" /\ pc = "run"

\* C6: the coefficient used is that of the lowest-index table entry whose
\* energy is nearest the query; an exact match returns its own coefficient and
\* a query outside the table returns the coefficient of the nearer endpoint.
C6_NearestNeighbourLookup ==
    pc = "return" =>
        LET table == dataset[sim.particle]
            q == sim.energy
            k == sim.closest_index
            n == Len(table.energy)
        IN  /\ k \in 1..n
            /\ sim.dose_coeff = table.dose_coeffs[k]
            /\ \A j \in 1..n : Abs(table.energy[k] - q) <= Abs(table.energy[j] - q)
            /\ \A j \in 1..(k - 1) : Abs(table.energy[k] - q) < Abs(table.energy[j] - q)
            /\ \A j \in 1..n : table.energy[j] = q => sim.dose_coeff = table.dose_coeffs[j]
            /\ q < table.energy[1] => sim.dose_coeff = table.dose_coeffs[1]
            /\ q > table.energy[n] => sim.dose_coeff = table.dose_coeffs[n]

C6_Witness ==
    /\ pc = "return"
    /\ LET table == dataset[sim.particle]
           k == sim.closest_index
       IN  /\ k < Len(table.energy)
           /\ Abs(table.energy[k] - sim.energy) = Abs(table.energy[k + 1] - sim.energy)
           /\ table.dose_coeffs[k] # table.dose_coeffs[k + 1]

\* C7: with the same source, the analytic dose at a smaller positive distance
\* is at least that at a larger one, and dose * distance^2 is the same at
\* every positive distance.
C7_InverseSquareLaw ==
    /\ (pc = "return" /\ sim.distance_from_source > 0) =>
          \A d2 \in {x \in Distances : x > 0} :
              LET e1 == sim.calculated_dose
                  e2 == manual_dose_calc(sim.particles_per_shot, d2,
                                         dataset[sim.particle], sim.energy)
              IN  /\ sim.distance_from_source < d2 => VLeq(e2, e1)
                  /\ d2 < sim.distance_from_source => VLeq(e1, e2)
                  /\ VMul(e1, math_pow(Cm(sim.distance_from_source), 2))
                        = VMul(e2, math_pow(Cm(d2), 2))
    /\ InSweep =>
          \A i, j \in 1..Len(dose_for_each_shot_calc) :
              i < j =>
                  /\ VLeq(dose_for_each_shot_calc[j], dose_for_each_shot_calc[i])
                  /\ VMul(dose_for_each_shot_calc[i],
                          math_pow(Cm(distances_to_simulate[i]), 2))
                        = VMul(dose_for_each_shot_calc[j],
                               math_pow(Cm(distances_to_simulate[j]), 2))

C7_Witness ==
    /\ pc = "return"
    /\ sim.distance_from_source = 151
    /\ sim.calculated_dose # Zero

\* the inverse of the unit chain, with the phantom volume (4/3) pi 15^3 = 4500 pi
InverseChain(dose, particles_per_shot) ==
    VDiv(VMul(VDiv(dose, Pico), V(4500, 1, 1, 0)), particles_per_shot)

C9_PhantomInsideBoundary ==
    (Built /\ sim.distance_from_source >= 151) =>
        LET g == sim.geometry
        IN  /\ g.phantom_surface.r = 150
            /\ g.outer_surface.r = sim.distance_from_source
            /\ Abs(g.phantom_surface.x0) + g.phantom_surface.r < g.outer_surface.r

C9_Witness == Built /\ sim.distance_from_source = 151

\* C10 as stated: for a distance of at least R + delta (15.1 cm) the origin
\* lies outside the phantom.
C10_SourceOutsidePhantom ==
    (Built /\ sim.distance_from_source >= 151) =>
        Abs(sim.geometry.phantom_surface.x0) > sim.geometry.phantom_surface.r

\* C10 as amended: for a distance greater than 2R + delta (30.1 cm) the origin
\* lies outside the phantom.
C10_SourceOutsidePhantomBeyondDiameter ==
    (Built /\ sim.distance_from_source > 301) =>
        Abs(sim.geometry.phantom_surface.x0) > sim.geometry.phantom_surface.r

C10_Witness == Built /\ sim.distance_from_source = 302

====
